---- MODULE Spec2Model ----
(***************************************************************************)
(* A model of json_utils: the three batch orchestrators                    *)
(* (asyncio_json_utils.JSONUtilsAsync, threading_json_utils.JSONUtils,     *)
(* multiprocessing_json_utils.JSONUtilsProcess) over a small file system,  *)
(* and the tree transforms of threading_json_utils.JSONUtils.              *)
(*                                                                         *)
(* Python values are tagged records [t, v]:                                *)
(*   "null" (None), "num" (int), "str" (sequence of characters),           *)
(*   "map" (dict: insertion-ordered sequence of <<key, value>> with unique *)
(*   keys), "seq" (list), "tup" (tuple), "obj" (an object the json encoder *)
(*   has no encoding for).                                                 *)
(* Strings, dict keys of documents and file contents are sequences of      *)
(* one-character strings.                                                  *)
(***************************************************************************)
EXTENDS Integers, Sequences, FiniteSets, Bags, TLC

----------------------------------------------------------------------------
(* Python values *)

None == [t |-> "null", v |-> 0]
Num(n) == [t |-> "num", v |-> n]
Str(s) == [t |-> "str", v |-> s]
Map(items) == [t |-> "map", v |-> items]
List(items) == [t |-> "seq", v |-> items]
Tuple(items) == [t |-> "tup", v |-> items]
Object == [t |-> "obj", v |-> 0]

----------------------------------------------------------------------------
(* dict: an insertion-ordered sequence of <<key, value>> pairs *)

DictKeys(d) == {d[i][1] : i \in 1..Len(d)}
DictHas(d, k) == \E i \in 1..Len(d) : d[i][1] = k
DictGet(d, k) == d[CHOOSE i \in 1..Len(d) : d[i][1] = k][2]
\* d[k] = v: an existing key keeps its place, a new one goes last
DictSet(d, k, v) ==
    IF DictHas(d, k)
    THEN [i \in 1..Len(d) |-> IF d[i][1] = k THEN <<k, v>> ELSE d[i]]
    ELSE Append(d, <<k, v>>)
\* d.get(k): None for a missing key
DictGetOrNone(d, k) == IF DictHas(d, k) THEN DictGet(d, k) ELSE None

\* Python's ==: dicts compare as key -> value maps whatever their order
RECURSIVE PyEq(_, _)
PyEq(x, y) ==
    IF x.t # y.t THEN FALSE
    ELSE IF x.t = "map"
         THEN /\ DictKeys(x.v) = DictKeys(y.v)
              /\ \A k \in DictKeys(x.v) : PyEq(DictGet(x.v, k), DictGet(y.v, k))
    ELSE IF x.t \in {"seq", "tup"}
         THEN /\ Len(x.v) = Len(y.v)
              /\ \A i \in 1..Len(x.v) : PyEq(x.v[i], y.v[i])
    ELSE x.v = y.v

----------------------------------------------------------------------------
(* The codec: json.dump / json.dumps / json.load / json.loads *)

Digits == <<"0", "1", "2", "3", "4", "5", "6", "7", "8", "9">>
IsDigit(c) == \E i \in 1..Len(Digits) : Digits[i] = c
DigitVal(c) == (CHOOSE i \in 1..Len(Digits) : Digits[i] = c) - 1
IsSpace(c) == c \in {" ", "\n"}

\* str(n) for n >= 0
RECURSIVE IntToChars(_)
IntToChars(n) ==
    IF n < 10 THEN <<Digits[n + 1]>>
    ELSE IntToChars(n \div 10) \o <<Digits[(n % 10) + 1]>>

\* The separators json writes: with indent a line break follows "{", "[" and
\* "," and precedes "}" and "]" (the indentation blanks are left out); without
\* it "," is followed by a blank. ":" is followed by a blank in both.
ItemSep(indent) == IF indent THEN <<",", "\n">> ELSE <<",", " ">>
KeySep == <<":", " ">>
Brk(indent) == IF indent THEN <<"\n">> ELSE <<>>

\* Encoding yields [ok, out]: the characters emitted, and whether the encoder
\* got to the end; on an unencodable value it stops (TypeError), and out is
\* what it had yielded until then.
RECURSIVE Encode(_, _), EncodeItems(_, _, _, _), EncodeMembers(_, _, _, _)
Encode(x, indent) ==
    CASE x.t = "null" -> [ok |-> TRUE, out |-> <<"n", "u", "l", "l">>]
      [] x.t = "num" -> [ok |-> TRUE, out |-> IntToChars(x.v)]
      [] x.t = "str" -> [ok |-> TRUE, out |-> <<"\"">> \o x.v \o <<"\"">>]
      [] x.t \in {"seq", "tup"} ->
            IF Len(x.v) = 0 THEN [ok |-> TRUE, out |-> <<"[", "]">>]
            ELSE EncodeItems(x.v, 1, indent, <<"[">> \o Brk(indent))
      [] x.t = "map" ->
            IF Len(x.v) = 0 THEN [ok |-> TRUE, out |-> <<"{", "}">>]
            ELSE EncodeMembers(x.v, 1, indent, <<"{">> \o Brk(indent))
      [] OTHER -> [ok |-> FALSE, out |-> <<>>]
EncodeItems(items, i, indent, acc) ==
    IF i > Len(items) THEN [ok |-> TRUE, out |-> acc \o Brk(indent) \o <<"]">>]
    ELSE LET pre == IF i = 1 THEN acc ELSE acc \o ItemSep(indent)
             e == Encode(items[i], indent)
         IN IF e.ok THEN EncodeItems(items, i + 1, indent, pre \o e.out)
            ELSE [ok |-> FALSE, out |-> pre \o e.out]
EncodeMembers(items, i, indent, acc) ==
    IF i > Len(items) THEN [ok |-> TRUE, out |-> acc \o Brk(indent) \o <<"}">>]
    ELSE LET pre == (IF i = 1 THEN acc ELSE acc \o ItemSep(indent))
                        \o <<"\"">> \o items[i][1] \o <<"\"">> \o KeySep
             e == Encode(items[i][2], indent)
         IN IF e.ok THEN EncodeMembers(items, i + 1, indent, pre \o e.out)
            ELSE [ok |-> FALSE, out |-> pre \o e.out]

\* Decoding: a recursive-descent reader; each reader yields [ok, val, pos],
\* pos the index after what it read.
ParseFail == [ok |-> FALSE, val |-> None, pos |-> 0]
RECURSIVE SkipSpace(_, _)
SkipSpace(s, i) == IF i <= Len(s) /\ IsSpace(s[i]) THEN SkipSpace(s, i + 1) ELSE i
RECURSIVE ParseDigits(_, _, _)
ParseDigits(s, i, n) ==
    IF i <= Len(s) /\ IsDigit(s[i]) THEN ParseDigits(s, i + 1, 10 * n + DigitVal(s[i]))
    ELSE [ok |-> TRUE, val |-> Num(n), pos |-> i]
RECURSIVE ParseChars(_, _, _)
ParseChars(s, i, acc) ==
    IF i > Len(s) THEN ParseFail
    ELSE IF s[i] = "\"" THEN [ok |-> TRUE, val |-> Str(acc), pos |-> i + 1]
    ELSE ParseChars(s, i + 1, Append(acc, s[i]))
RECURSIVE ParseValue(_, _), ParseItems(_, _, _), ParseMembers(_, _, _)
ParseValue(s, i0) ==
    LET i == SkipSpace(s, i0) IN
    IF i > Len(s) THEN ParseFail
    ELSE IF s[i] = "n"
         THEN IF i + 3 <= Len(s) /\ SubSeq(s, i, i + 3) = <<"n", "u", "l", "l">>
              THEN [ok |-> TRUE, val |-> None, pos |-> i + 4]
              ELSE ParseFail
    ELSE IF IsDigit(s[i])
         THEN IF s[i] = "0" /\ i + 1 <= Len(s) /\ IsDigit(s[i + 1])
              THEN [ok |-> TRUE, val |-> Num(0), pos |-> i + 1]
              ELSE ParseDigits(s, i, 0)
    ELSE IF s[i] = "\"" THEN ParseChars(s, i + 1, <<>>)
    ELSE IF s[i] = "["
         THEN LET j == SkipSpace(s, i + 1) IN
              IF j <= Len(s) /\ s[j] = "]"
              THEN [ok |-> TRUE, val |-> List(<<>>), pos |-> j + 1]
              ELSE ParseItems(s, i + 1, <<>>)
    ELSE IF s[i] = "{"
         THEN LET j == SkipSpace(s, i + 1) IN
              IF j <= Len(s) /\ s[j] = "}"
              THEN [ok |-> TRUE, val |-> Map(<<>>), pos |-> j + 1]
              ELSE ParseMembers(s, i + 1, <<>>)
    ELSE ParseFail
ParseItems(s, i, acc) ==
    LET e == ParseValue(s, i) IN
    IF ~e.ok THEN ParseFail
    ELSE LET j == SkipSpace(s, e.pos) IN
         IF j > Len(s) THEN ParseFail
         ELSE IF s[j] = "]"
              THEN [ok |-> TRUE, val |-> List(Append(acc, e.val)), pos |-> j + 1]
         ELSE IF s[j] = "," THEN ParseItems(s, j + 1, Append(acc, e.val))
         ELSE ParseFail
ParseMembers(s, i0, acc) ==
    LET i == SkipSpace(s, i0) IN
    IF i > Len(s) \/ s[i] # "\"" THEN ParseFail
    ELSE LET k == ParseChars(s, i + 1, <<>>) IN
         IF ~k.ok THEN ParseFail
         ELSE LET c == SkipSpace(s, k.pos) IN
              IF c > Len(s) \/ s[c] # ":" THEN ParseFail
              ELSE LET e == ParseValue(s, c + 1) IN
                   IF ~e.ok THEN ParseFail
                   ELSE LET j == SkipSpace(s, e.pos)
                            d == DictSet(acc, k.val.v, e.val)
                        IN IF j > Len(s) THEN ParseFail
                           ELSE IF s[j] = "}"
                                THEN [ok |-> TRUE, val |-> Map(d), pos |-> j + 1]
                           ELSE IF s[j] = "," THEN ParseMembers(s, j + 1, d)
                           ELSE ParseFail

\* json.loads(text): [ok, val]; trailing non-blank text is an error
Decode(s) ==
    LET e == ParseValue(s, 1) IN
    IF e.ok /\ SkipSpace(s, e.pos) > Len(s)
    THEN [ok |-> TRUE, val |-> e.val]
    ELSE [ok |-> FALSE, val |-> None]

----------------------------------------------------------------------------
(* The tree transforms of threading_json_utils.JSONUtils *)

\* the outcome of a call that raised (TypeError on a value of the wrong type)
Raised == [t |-> "raise", v |-> 0]

Sep == <<".">>

DictValues(d) == [i \in 1..Len(d) |-> d[i][2]]

\* result = dict1.copy(); result.update(dict2)
RECURSIVE DictUpdate(_, _, _)
DictUpdate(d, other, i) ==
    IF i > Len(other) THEN d
    ELSE DictUpdate(DictSet(d, other[i][1], other[i][2]), other, i + 1)
\* mutant: the updates lose against the base dictionary
merge_json_FirstWins(dict1, dict2) == Map(DictUpdate(dict2.v, dict1.v, 1))
merge_json(dict1, dict2) == Map(DictUpdate(dict1.v, dict2.v, 1))

\* the values of the entries of a dict whose key is search_key, in dict order
RECURSIVE MatchesOf(_, _, _)
MatchesOf(d, search_key, i) ==
    IF i > Len(d) THEN <<>>
    ELSE (IF d[i][1] = search_key THEN <<d[i][2]>> ELSE <<>>)
             \o MatchesOf(d, search_key, i + 1)
\* mutant: the elements of a list are not pushed
RECURSIVE SearchLoop_SkipLists(_, _, _)
SearchLoop_SkipLists(stack, found, search_key) ==
    IF Len(stack) = 0 THEN found
    ELSE LET current == stack[Len(stack)]
             rest == SubSeq(stack, 1, Len(stack) - 1)
         IN IF current.t = "map"
            THEN SearchLoop_SkipLists(rest \o DictValues(current.v),
                            found \o MatchesOf(current.v, search_key, 1), search_key)
            ELSE SearchLoop_SkipLists(rest, found, search_key)
\* the while loop of search_nested_key: pop the last of the stack; a dict
\* appends its matches to found and pushes all its values, a list pushes its
\* elements, anything else is dropped
RECURSIVE SearchLoop(_, _, _)
SearchLoop(stack, found, search_key) ==
    IF Len(stack) = 0 THEN found
    ELSE LET current == stack[Len(stack)]
             rest == SubSeq(stack, 1, Len(stack) - 1)
         IN IF current.t = "map"
            THEN SearchLoop(rest \o DictValues(current.v),
                            found \o MatchesOf(current.v, search_key, 1), search_key)
            ELSE IF current.t = "seq"
            THEN SearchLoop(rest \o current.v, found, search_key)
            ELSE SearchLoop(rest, found, search_key)
search_nested_key(data, search_key) == SearchLoop(<<data>>, <<>>, search_key)

\* mutant: the separator is written after an empty parent too
NewKey_AlwaysJoined(parent, sep, k) == parent \o sep \o k
\* new_key = f"{parent}{sep}{k}" if parent else k
NewKey(parent, sep, k) == IF parent # <<>> THEN parent \o sep \o k ELSE k
\* the while loop of flatten_json over a stack of <<value, key>>
RECURSIVE FlattenLoop(_, _, _)
FlattenLoop(stack, items, sep) ==
    IF Len(stack) = 0 THEN items
    ELSE LET current == stack[Len(stack)][1]
             parent == stack[Len(stack)][2]
             rest == SubSeq(stack, 1, Len(stack) - 1)
         IN IF current.t = "map"
            THEN FlattenLoop(
                    rest \o [i \in 1..Len(current.v) |->
                               <<current.v[i][2], NewKey(parent, sep, current.v[i][1])>>],
                    items, sep)
            ELSE IF current.t = "seq"
            THEN FlattenLoop(
                    rest \o [i \in 1..Len(current.v) |->
                               <<current.v[i], NewKey(parent, sep, IntToChars(i - 1))>>],
                    items, sep)
            ELSE FlattenLoop(rest, DictSet(items, parent, current), sep)
flatten_json(data, parent_key, sep) ==
    Map(FlattenLoop(<< <<data, parent_key>> >>, <<>>, sep))

\* compound_key.split(sep), sep not empty
IsSepAt(s, i, sep) == i + Len(sep) - 1 <= Len(s) /\ SubSeq(s, i, i + Len(sep) - 1) = sep
RECURSIVE SplitFrom(_, _, _, _)
SplitFrom(s, i, sep, cur) ==
    IF i > Len(s) THEN <<cur>>
    ELSE IF IsSepAt(s, i, sep) THEN <<cur>> \o SplitFrom(s, i + Len(sep), sep, <<>>)
    ELSE SplitFrom(s, i + 1, sep, Append(cur, s[i]))
Split(s, sep) == SplitFrom(s, 1, sep, <<>>)

\* One compound key of unflatten_json: walk keys[:-1] from d, creating {} for
\* a missing key, then d[keys[-1]] = value. Yields [ok, val]: the walk raises
\* TypeError when it steps into a value that is no dict.
RECURSIVE SetPath(_, _, _)
SetPath(d, keys, value) ==
    IF Len(keys) = 1 THEN [ok |-> TRUE, val |-> DictSet(d, keys[1], value)]
    ELSE LET key == keys[1]
             child == IF DictHas(d, key) THEN DictGet(d, key) ELSE Map(<<>>)
         IN IF child.t # "map" THEN [ok |-> FALSE, val |-> d]
            ELSE LET r == SetPath(child.v, Tail(keys), value)
                 IN [ok |-> r.ok, val |-> DictSet(d, key, Map(r.val))]
RECURSIVE UnflattenLoop(_, _, _, _)
UnflattenLoop(flat, i, nested, sep) ==
    IF i > Len(flat) THEN Map(nested)
    ELSE LET r == SetPath(nested, Split(flat[i][1], sep), flat[i][2])
         IN IF r.ok THEN UnflattenLoop(flat, i + 1, r.val, sep) ELSE Raised
unflatten_json(flat_data, sep) == UnflattenLoop(flat_data.v, 1, <<>>, sep)

\* diff_json, with the iteration order of set(dict1) | set(dict2) given as
\* order, a sequence listing that set
OldKey == <<"o", "l", "d">>
NewKeyName == <<"n", "e", "w">>
RECURSIVE DiffLoop(_, _, _, _, _)
DiffLoop(dict1, dict2, order, i, diff) ==
    IF i > Len(order) THEN diff
    ELSE LET key == order[i]
             old == DictGetOrNone(dict1, key)
             new == DictGetOrNone(dict2, key)
         IN DiffLoop(dict1, dict2, order, i + 1,
                     IF ~PyEq(old, new)
                     THEN DictSet(diff, key, Map(<< <<OldKey, old>>, <<NewKeyName, new>> >>))
                     ELSE diff)
\* mutant: old and new are taken from the wrong sides
diff_json_Swapped(dict1, dict2, order) == Map(DiffLoop(dict2.v, dict1.v, order, 1, <<>>))
diff_json(dict1, dict2, order) == Map(DiffLoop(dict1.v, dict2.v, order, 1, <<>>))

----------------------------------------------------------------------------
(* The batch orchestrators over a file system *)

VARIABLES
    strategy,   \* the module in use: "async", "thread" or "process"
    fs,         \* writable path -> [e: the file exists, c: its characters]
    fs0,        \* fs when the current batch call was made
    op,         \* the batch call: "none", "load" or "save"
    input,      \* its argument: paths (load) or <<path, data>> pairs (save)
    workers,    \* max_workers / workers of the call (0 for "async": no pool)
    pool,       \* the call's worker pool: "none", "up" or "down"
    items,      \* one record per submitted item (see Item)
    pc,         \* the caller: "idle", "running", "collecting", "returned"
    snap,       \* thread: the items already finished when as_completed began
    yielded,    \* thread: the items in the order as_completed yielded them
    completed,  \* the items in the order in which they completed
    ret,        \* the value the call returned
    saved,      \* the save call that came before a load-back: [pairs, ret]
    tcall,      \* a call of a tree transform: [fn, a, b]
    tdone,      \* the tree transform has returned
    tret        \* its result

iovars == <<strategy, fs, fs0, op, input, workers, pool, items, pc, snap,
            yielded, completed, ret, saved>>
treevars == <<tcall, tdone, tret>>
vars == <<strategy, fs, fs0, op, input, workers, pool, items, pc, snap,
          yielded, completed, ret, saved, tcall, tdone, tret>>

MaxItems == 2
MaxWorkers == 2

Strategies == {"async", "thread", "process"}

\* The paths of the model. "z" lies in a directory that does not exist: it can
\* be opened neither for reading nor for writing.
PathSet == {"a", "n", "m", "x", "z"}
Writable == {"a", "n", "m", "x"}

DocA == Map(<< <<(<<"k">>), Num(1)>> >>)
DocB == Map(<< <<(<<"k">>), List(<<Num(2), None>>)>> >>)
TupC == Tuple(<<Num(1)>>)
BadD == Map(<< <<(<<"k">>), Object>> >>)

File(c) == [e |-> TRUE, c |-> c]
NoFile == [e |-> FALSE, c |-> <<>>]
\* "a" holds a document, "n" holds null, "m" holds text that is no JSON,
\* "x" does not exist
InitFs ==
    [p \in Writable |->
        CASE p = "a" -> File(Encode(DocA, FALSE).out)
          [] p = "n" -> File(<<"n", "u", "l", "l">>)
          [] p = "m" -> File(<<"{", "k">>)
          [] OTHER -> NoFile]

\* what callers save
PairSet == {<<"a", DocB>>, <<"a", TupC>>, <<"a", BadD>>,
            <<"x", DocA>>, <<"x", None>>, <<"z", DocA>>}

RECURSIVE SeqsUpTo(_, _)
SeqsUpTo(S, n) ==
    IF n = 0 THEN {<<>>}
    ELSE LET shorter == SeqsUpTo(S, n - 1)
         IN shorter \cup {Append(q, e) : q \in {r \in shorter : Len(r) = n - 1}, e \in S}

Item(path, data) ==
    [path |-> path, data |-> data, pc |-> "queued", res |-> None, ok |-> FALSE,
     text |-> <<>>, buf |-> <<>>]

\* open(path, "r") / open(path, "w") succeed
CanOpenRead(path) == path \in DOMAIN fs /\ fs[path].e
CanOpenWrite(path) == path \in DOMAIN fs

\* flushing a file object's buffer, written from offset 0 of the file
Flush(file, buf) ==
    File(buf \o SubSeq(file.c, Len(buf) + 1, Len(file.c)))

\* indent of json.dump as each strategy calls it with no extra options:
\* threading's save_json_to_file defaults indent to 4, the others pass none
Indent(s) == s = "thread"

N == Len(items)
Running(i) == items[i].pc \notin {"queued", "done"}
\* mutant: the wait is over as soon as any one item is done
AllDone_AnyDone == N > 0 => \E i \in 1..N : items[i].pc = "done"
AllDone == \A i \in 1..N : items[i].pc = "done"

----------------------------------------------------------------------------
(* The caller *)

NoCall ==
    /\ fs = InitFs /\ fs0 = InitFs
    /\ op = "none" /\ input = <<>> /\ workers = 0 /\ pool = "none"
    /\ items = <<>> /\ pc = "idle" /\ snap = {} /\ yielded = <<>>
    /\ completed = <<>> /\ ret = <<>> /\ saved = <<>>

NoTree == [fn |-> "none", a |-> None, b |-> None]

Init ==
    /\ strategy \in Strategies
    /\ NoCall
    /\ tcall = NoTree /\ tdone = FALSE /\ tret = None

Begin(o, in, w, its) ==
    /\ op' = o /\ input' = in /\ items' = its
    /\ workers' = IF strategy = "async" THEN 0 ELSE w
    /\ pool' = IF strategy = "async" THEN "none" ELSE "up"
    /\ pc' = "running" /\ fs0' = fs
    /\ snap' = {} /\ yielded' = <<>> /\ completed' = <<>> /\ ret' = <<>>

\* load_multiple_json_files(file_paths, max_workers): every item is submitted
CallLoad ==
    /\ pc = "idle"
    /\ \E paths \in SeqsUpTo(PathSet, MaxItems), w \in 1..MaxWorkers :
          /\ strategy = "async" => w = 1
          /\ Begin("load", paths, w, [i \in 1..Len(paths) |-> Item(paths[i], None)])
    /\ UNCHANGED <<strategy, fs, saved, treevars>>

\* save_multiple_json_files(file_data_pairs, max_workers)
CallSave ==
    /\ pc = "idle"
    /\ \E pairs \in SeqsUpTo(PairSet, MaxItems), w \in 1..MaxWorkers :
          /\ strategy = "async" => w = 1
          /\ Begin("save", pairs,
                   w, [i \in 1..Len(pairs) |-> Item(pairs[i][1], pairs[i][2])])
    /\ UNCHANGED <<strategy, fs, saved, treevars>>

\* the caller loads back the paths it has just saved, with the same strategy
\* and pool width
CallLoadBack ==
    /\ pc = "returned" /\ op = "save" /\ saved = <<>>
    /\ saved' = <<[pairs |-> input, ret |-> ret]>>
    /\ Begin("load", [i \in 1..Len(input) |-> input[i][1]], workers,
             [i \in 1..Len(input) |-> Item(input[i][1], None)])
    /\ UNCHANGED <<strategy, fs, treevars>>

----------------------------------------------------------------------------
(* The single-file helpers *)

\* threading: load_json_from_file is json.load(f) and may raise;
\* _load_file_helper turns any exception into None
load_json_from_file(text) == Decode(text)
_load_file_helper(text) ==
    LET r == load_json_from_file(text) IN IF r.ok THEN r.val ELSE None
\* asyncio: load_json_from_file returns json.loads(content), None on exception
async_load_json_from_file(text) ==
    LET r == Decode(text) IN IF r.ok THEN r.val ELSE None
\* multiprocessing: load_json_file returns json.load(f), None on exception
load_json_file(text) ==
    LET r == Decode(text) IN IF r.ok THEN r.val ELSE None

LoadResult(text) ==
    CASE strategy = "thread" -> _load_file_helper(text)
      [] strategy = "async" -> async_load_json_from_file(text)
      [] OTHER -> load_json_file(text)

\* what json.dump(data, f) leaves in the buffer of f, and whether it raised:
\* threading's save_json_to_file and multiprocessing's save_json_file
save_json_to_file(data) == Encode(data, Indent("thread"))
save_json_file(data) == Encode(data, Indent("process"))
\* asyncio's save_json_to_file: json_str = json.dumps(data), before the open
async_dumps(data) == Encode(data, Indent("async"))

SetItem(i, r) == items' = [items EXCEPT ![i] = r]
\* item i is over: its worker is free again
Finish(i, r) ==
    /\ SetItem(i, [r EXCEPT !.pc = "done"])
    /\ completed' = Append(completed, i)

\* mutant: a queued item starts whether or not a worker is free
StartItem_NoWidth(i) ==
    /\ pc \in {"running", "collecting"}
    /\ i \in 1..N /\ items[i].pc = "queued"
    /\ \A j \in 1..(i - 1) : items[j].pc # "queued"
    /\ IF strategy = "async" /\ op = "save"
       THEN LET e == async_dumps(items[i].data) IN
            IF e.ok
            THEN /\ SetItem(i, [items[i] EXCEPT !.pc = "open", !.text = e.out])
                 /\ UNCHANGED completed
            ELSE Finish(i, [items[i] EXCEPT !.ok = FALSE])
       ELSE /\ SetItem(i, [items[i] EXCEPT !.pc = "open"])
            /\ UNCHANGED completed
    /\ UNCHANGED <<strategy, fs, fs0, op, input, workers, pool, pc, snap, yielded,
                   ret, saved, treevars>>

\* An item starts: the pool hands out the queued items in submission order, a
\* free worker at a time; asyncio starts the tasks in order with no pool. An
\* asyncio save task runs json.dumps before its first await: if that raises
\* the task is over, with None.
StartItem(i) ==
    /\ pc \in {"running", "collecting"}
    /\ i \in 1..N /\ items[i].pc = "queued"
    /\ \A j \in 1..(i - 1) : items[j].pc # "queued"
    /\ strategy # "async" => Cardinality({j \in 1..N : Running(j)}) < workers
    /\ IF strategy = "async" /\ op = "save"
       THEN LET e == async_dumps(items[i].data) IN
            IF e.ok
            THEN /\ SetItem(i, [items[i] EXCEPT !.pc = "open", !.text = e.out])
                 /\ UNCHANGED completed
            ELSE Finish(i, [items[i] EXCEPT !.ok = FALSE])
       ELSE /\ SetItem(i, [items[i] EXCEPT !.pc = "open"])
            /\ UNCHANGED completed
    /\ UNCHANGED <<strategy, fs, fs0, op, input, workers, pool, pc, snap, yielded,
                   ret, saved, treevars>>

\* open(path, "r"): a missing file raises, and the helper returns None
OpenForRead(i) ==
    /\ i \in 1..N /\ op = "load" /\ items[i].pc = "open"
    /\ IF CanOpenRead(items[i].path)
       THEN /\ SetItem(i, [items[i] EXCEPT !.pc = "read"])
            /\ UNCHANGED completed
       ELSE Finish(i, [items[i] EXCEPT !.res = None])
    /\ UNCHANGED <<strategy, fs, fs0, op, input, workers, pool, pc, snap, yielded,
                   ret, saved, treevars>>

\* read the file and decode it
ReadAndDecode(i) ==
    /\ i \in 1..N /\ op = "load" /\ items[i].pc = "read"
    /\ Finish(i, [items[i] EXCEPT !.res = LoadResult(fs[items[i].path].c)])
    /\ UNCHANGED <<strategy, fs, fs0, op, input, workers, pool, pc, snap, yielded,
                   ret, saved, treevars>>

\* open(path, "w"): creates the file or truncates it; raises on a path that
\* cannot be written, and the helper returns None
OpenForWrite(i) ==
    /\ i \in 1..N /\ op = "save" /\ items[i].pc = "open"
    /\ IF CanOpenWrite(items[i].path)
       THEN /\ fs' = [fs EXCEPT ![items[i].path] = File(<<>>)]
            /\ SetItem(i, [items[i] EXCEPT !.pc = "write"])
            /\ UNCHANGED completed
       ELSE /\ Finish(i, [items[i] EXCEPT !.ok = FALSE])
            /\ UNCHANGED fs
    /\ UNCHANGED <<strategy, fs0, op, input, workers, pool, pc, snap, yielded,
                   ret, saved, treevars>>

\* json.dump(data, f) in the pool strategies, f.write(json_str) in asyncio:
\* the characters go to the buffer of the file object
WriteItem(i) ==
    /\ i \in 1..N /\ op = "save" /\ items[i].pc = "write"
    /\ LET e == CASE strategy = "thread" -> save_json_to_file(items[i].data)
                  [] strategy = "process" -> save_json_file(items[i].data)
                  [] OTHER -> [ok |-> TRUE, out |-> items[i].text]
       IN SetItem(i, [items[i] EXCEPT !.pc = "close", !.buf = e.out, !.ok = e.ok])
    /\ UNCHANGED <<strategy, fs, fs0, op, input, workers, pool, pc, snap, yielded,
                   completed, ret, saved, treevars>>

\* leaving the with block closes the file, which flushes the buffer, also
\* when json.dump raised; the helper returns the path, or None if it raised
CloseItem(i) ==
    /\ i \in 1..N /\ op = "save" /\ items[i].pc = "close"
    /\ fs' = [fs EXCEPT ![items[i].path] = Flush(fs[items[i].path], items[i].buf)]
    /\ Finish(i, items[i])
    /\ UNCHANGED <<strategy, fs0, op, input, workers, pool, pc, snap, yielded,
                   ret, saved, treevars>>

----------------------------------------------------------------------------
(* Fan-in *)

\* {path: data for path, data in zip(file_paths, results)}
RECURSIVE ZipDict(_, _)
ZipDict(its, n) ==
    IF n = 0 THEN <<>>
    ELSE DictSet(ZipDict(its, n - 1), its[n].path, its[n].res)
\* [r for r in results if r is not None], results listed by the indices in order
RECURSIVE NotNone(_, _, _)
NotNone(its, order, k) ==
    IF k > Len(order) THEN <<>>
    ELSE (IF its[order[k]].ok THEN <<its[order[k]].path>> ELSE <<>>)
             \o NotNone(its, order, k + 1)
InputOrder == [i \in 1..N |-> i]

\* mutant: the results are taken in the order in which the tasks completed
RECURSIVE ZipDictBy(_, _, _)
ZipDictBy(its, order, n) ==
    IF n = 0 THEN <<>>
    ELSE DictSet(ZipDictBy(its, order, n - 1), its[n].path, its[order[n]].res)
GatherResult_ByCompletion ==
    IF op = "load" THEN ZipDictBy(items, completed, N) ELSE NotNone(items, completed, 1)
\* asyncio.gather(*tasks) returns once every task is done, the results in the
\* order of the tasks
GatherResult == IF op = "load" THEN ZipDict(items, N) ELSE NotNone(items, InputOrder, 1)
GatherReturn ==
    /\ strategy = "async" /\ pc = "running" /\ AllDone
    /\ ret' = GatherResult
    /\ pc' = "returned"
    /\ UNCHANGED <<strategy, fs, fs0, op, input, workers, pool, items, snap, yielded,
                   completed, saved, treevars>>

\* mutant: the results are taken in the order in which the tasks completed
PoolMapResult_ByCompletion ==
    IF op = "load" THEN ZipDictBy(items, completed, N) ELSE NotNone(items, completed, 1)
\* pool.map(f, args) returns once every task is done, the results in the
\* order of args; leaving the with block ends the pool
PoolMapResult == IF op = "load" THEN ZipDict(items, N) ELSE NotNone(items, InputOrder, 1)
PoolMapReturn ==
    /\ strategy = "process" /\ pc = "running" /\ AllDone
    /\ ret' = PoolMapResult
    /\ pc' = "returned" /\ pool' = "down"
    /\ UNCHANGED <<strategy, fs, fs0, op, input, workers, items, snap, yielded,
                   completed, saved, treevars>>

\* as_completed(futures) is entered: the futures finished by now are set
\* aside, to be yielded first
AsCompleted ==
    /\ strategy = "thread" /\ pc = "running"
    /\ snap' = {i \in 1..N : items[i].pc = "done"}
    /\ pc' = "collecting"
    /\ UNCHANGED <<strategy, fs, fs0, op, input, workers, pool, items, yielded,
                   completed, ret, saved, treevars>>

InYielded(i) == \E k \in 1..Len(yielded) : yielded[k] = i
\* mutant: the futures finished before as_completed was entered are forgotten
MayYield_ForgetsFinished(i) ==
    /\ i \in 1..N /\ items[i].pc = "done" /\ ~InYielded(i)
    /\ i \notin snap
    /\ \A k \in 1..Len(completed) :
          (completed[k] \notin snap /\ ~InYielded(completed[k]))
              => \E m \in 1..k : completed[m] = i
\* as_completed yields the futures set aside in the iteration order of a set
\* (any order), then the others as they complete
MayYield(i) ==
    /\ i \in 1..N /\ items[i].pc = "done" /\ ~InYielded(i)
    /\ \/ i \in snap
       \/ /\ \A j \in snap : InYielded(j)
          /\ \A k \in 1..Len(completed) :
                (completed[k] \notin snap /\ ~InYielded(completed[k]))
                    => \E m \in 1..k : completed[m] = i
\* mutant: the path is appended whether or not the helper returned it
Collect_Unchecked(i) ==
    IF op = "load" THEN DictSet(ret, items[i].path, items[i].res)
    ELSE Append(ret, items[i].path)
\* the body of the for loop: results[path] = data (load),
\* if result: success_paths.append(result) (save)
Collect(i) ==
    IF op = "load" THEN DictSet(ret, items[i].path, items[i].res)
    ELSE IF items[i].ok THEN Append(ret, items[i].path) ELSE ret
Yield(i) ==
    /\ strategy = "thread" /\ pc = "collecting"
    /\ MayYield(i)
    /\ yielded' = Append(yielded, i)
    /\ ret' = Collect(i)
    /\ UNCHANGED <<strategy, fs, fs0, op, input, workers, pool, items, pc, snap,
                   completed, saved, treevars>>

\* the for loop is over; leaving the with block shuts the executor down
ThreadReturn ==
    /\ strategy = "thread" /\ pc = "collecting"
    /\ Len(yielded) = N
    /\ pc' = "returned" /\ pool' = "down"
    /\ UNCHANGED <<strategy, fs, fs0, op, input, workers, items, snap, yielded,
                   completed, ret, saved, treevars>>

Next ==
    \/ CallLoad
    \/ CallSave
    \/ CallLoadBack
    \/ \E i \in 1..N : StartItem(i)
    \/ \E i \in 1..N : OpenForRead(i)
    \/ \E i \in 1..N : ReadAndDecode(i)
    \/ \E i \in 1..N : OpenForWrite(i)
    \/ \E i \in 1..N : WriteItem(i)
    \/ \E i \in 1..N : CloseItem(i)
    \/ GatherReturn
    \/ PoolMapReturn
    \/ AsCompleted
    \/ \E i \in 1..N : Yield(i)
    \/ ThreadReturn

Spec == Init /\ [][Next]_vars

\* The steps of the workers, of the event loop and of the waiting caller, as
\* opposed to the calls the user makes, the read of a file apart. Every
\* worker thread or process, every task and the caller are scheduled as long
\* as they can take a step.
Progress ==
    \/ \E i \in 1..N : StartItem(i)
    \/ \E i \in 1..N : OpenForRead(i)
    \/ \E i \in 1..N : OpenForWrite(i)
    \/ \E i \in 1..N : WriteItem(i)
    \/ \E i \in 1..N : CloseItem(i)
    \/ GatherReturn
    \/ PoolMapReturn
    \/ AsCompleted
    \/ \E i \in 1..N : Yield(i)
    \/ ThreadReturn

\* Each single file operation finishes. ReadAndDecode(i) is enabled exactly
\* when item i of a load has its file open, so this is weak fairness of the
\* read step, with the enabling condition written out.
ReadPending == \E i \in 1..N : op = "load" /\ items[i].pc = "read"
ReadFinishes ==
    []<>(~ReadPending) \/ []<><<\E i \in 1..N : ReadAndDecode(i)>>_vars

SpecFair == Init /\ [][Next]_vars /\ WF_vars(Progress) /\ ReadFinishes

----------------------------------------------------------------------------
(* Properties of the batch calls *)

Returned(o) == pc = "returned" /\ op = o
DistinctPaths == \A i, j \in 1..N : i # j => items[i].path # items[j].path
\* the read of a path fails: the file is missing, or its text is no JSON
ReadFails(path) == ~CanOpenRead(path) \/ ~Decode(fs[path].c).ok
NoneEntries(d) == {k \in 1..Len(d) : d[k][2] = None}
\* a Document: a tree of mappings, sequences, strings, numbers and null
RECURSIVE IsDocument(_)
IsDocument(x) ==
    CASE x.t \in {"null", "num", "str"} -> TRUE
      [] x.t = "seq" -> \A i \in 1..Len(x.v) : IsDocument(x.v[i])
      [] x.t = "map" -> \A i \in 1..Len(x.v) : IsDocument(x.v[i][2])
      [] OTHER -> FALSE
\* the json encoder has an encoding for x
RECURSIVE Encodable(_)
Encodable(x) ==
    CASE x.t \in {"null", "num", "str"} -> TRUE
      [] x.t \in {"seq", "tup"} -> \A i \in 1..Len(x.v) : Encodable(x.v[i])
      [] x.t = "map" -> \A i \in 1..Len(x.v) : Encodable(x.v[i][2])
      [] OTHER -> FALSE
Count(q, e) == Cardinality({k \in 1..Len(q) : q[k] = e})

\* C1: a batch load of N (pairwise distinct) paths, M of them missing or
\* malformed, returns a map of exactly N entries, exactly M of them None, the
\* others the decoded documents.
C1_LoadCountsAsClaimed ==
    (Returned("load") /\ DistinctPaths) =>
        /\ Len(ret) = N
        /\ Cardinality(NoneEntries(ret)) =
              Cardinality({i \in 1..N : ReadFails(items[i].path)})
        /\ \A i \in 1..N : ~ReadFails(items[i].path) =>
              /\ DictHas(ret, items[i].path)
              /\ DictGet(ret, items[i].path) = Decode(fs[items[i].path].c).val

\* C2: a batch save of N pairs of which exactly one is on an unwritable path
\* (the data of all being encodable) returns a list of length N-1 holding
\* exactly the writable paths, and every sibling was written: a sibling whose
\* path no other item shares holds the complete encoding of its data.
C2_SaveOmitsOnlyUnwritable ==
    (/\ Returned("save")
     /\ Cardinality({i \in 1..N : items[i].path \notin Writable}) = 1
     /\ \A i \in 1..N : Encodable(items[i].data)) =>
        /\ Len(ret) = N - 1
        /\ \A p \in PathSet :
              Count(ret, p) = IF p \in Writable
                              THEN Cardinality({i \in 1..N : items[i].path = p})
                              ELSE 0
        /\ \A i \in 1..N :
              (/\ items[i].path \in Writable
               /\ \A j \in 1..N : j # i => items[j].path # items[i].path) =>
                  fs[items[i].path] = File(Encode(items[i].data, Indent(strategy)).out)
C2_Witness ==
    /\ Returned("save") /\ N >= 2
    /\ Cardinality({i \in 1..N : items[i].path \notin Writable}) = 1
    /\ \A i \in 1..N : Encodable(items[i].data)
    /\ Len(ret) = N - 1
    /\ items[1].path \notin Writable

\* C3: in the map a batch load returns, a path maps to None if and only if
\* its read failed.
C3_NoneIffReadFailed ==
    Returned("load") =>
        \A i \in 1..N :
            (DictGet(ret, items[i].path) = None) <=> ReadFails(items[i].path)

\* C4: after a batch save of Documents to pairwise distinct paths that
\* returned all N paths, loading the same paths back with the same strategy
\* maps every path to a Document equal to the one saved.
C4_SaveThenLoadRoundTrip ==
    (/\ Returned("load") /\ saved # <<>>
     /\ DistinctPaths
     /\ Len(saved[1].ret) = Len(saved[1].pairs)
     /\ \A i \in 1..Len(saved[1].pairs) : IsDocument(saved[1].pairs[i][2])) =>
        \A i \in 1..Len(saved[1].pairs) :
            /\ DictHas(ret, saved[1].pairs[i][1])
            /\ PyEq(DictGet(ret, saved[1].pairs[i][1]), saved[1].pairs[i][2])
C4_Witness ==
    /\ Returned("load") /\ saved # <<>> /\ N >= 2
    /\ DistinctPaths
    /\ Len(saved[1].ret) = N
    /\ \A i \in 1..N : IsDocument(saved[1].pairs[i][2])
    /\ completed # InputOrder
    /\ PyEq(DictGet(ret, "a"), DocB)

\* C5: at the return of a batch save (of pairwise distinct paths) every item
\* either succeeded, its path in the list and the file holding the complete
\* encoding of its data, or failed, its path omitted and the file as it was
\* before the call.
C5_WriteCompletedOrDidNot ==
    (Returned("save") /\ DistinctPaths) =>
        \A i \in 1..N :
            IF items[i].ok
            THEN /\ Count(ret, items[i].path) = 1
                 /\ fs[items[i].path] =
                       File(Encode(items[i].data, Indent(strategy)).out)
            ELSE /\ Count(ret, items[i].path) = 0
                 /\ items[i].path \in Writable =>
                       fs[items[i].path] = fs0[items[i].path]

\* C10 as claimed: the success list of a batch save is in input order in the
\* suspension strategy and in completion order in both pool strategies.
C10_OrderAsClaimed ==
    Returned("save") =>
        ret = IF strategy = "async" THEN NotNone(items, InputOrder, 1)
              ELSE NotNone(items, completed, 1)

\* C10 amended: the success list is in input order in the suspension strategy
\* and in the process-pool strategy, whatever the order in which the writes
\* finish; in the thread-pool strategy it lists the items in the order
\* as_completed yielded them: the items finished before the collection began
\* first, in any order, then the others in the order in which they completed.
PosIn(q, e) == CHOOSE k \in 1..Len(q) : q[k] = e
C10_SaveOrder ==
    Returned("save") =>
        /\ strategy \in {"async", "process"} => ret = NotNone(items, InputOrder, 1)
        /\ strategy = "thread" =>
              /\ ret = NotNone(items, yielded, 1)
              /\ \A i \in 1..N : Count(yielded, i) = 1
              /\ \A i, j \in 1..N :
                    (i \in snap /\ j \notin snap) =>
                        PosIn(yielded, i) < PosIn(yielded, j)
              /\ \A i, j \in 1..N :
                    (i \notin snap /\ j \notin snap
                        /\ PosIn(completed, i) < PosIn(completed, j)) =>
                        PosIn(yielded, i) < PosIn(yielded, j)
\* a process-pool save whose second item completed first and whose list is
\* still in input order
C10_Witness ==
    /\ Returned("save") /\ strategy = "process" /\ N = 2
    /\ completed = <<2, 1>>
    /\ items[1].ok /\ items[2].ok
    /\ ret = <<items[1].path, items[2].path>>

----------------------------------------------------------------------------
(* Calls of the tree transforms *)

MaxEntries == 2

ka == <<"a">>
kb == <<"b">>
kc == <<"c">>
kab == <<"a", ".", "b">>

\* dicts of at most n entries with distinct keys from K and values from V
RECURSIVE DictsUpTo(_, _, _)
DictsUpTo(K, V, n) ==
    IF n = 0 THEN {<<>>}
    ELSE LET shorter == DictsUpTo(K, V, n - 1)
         IN shorter \cup
            UNION {{Append(d, <<k, v>>) : k \in K \ DictKeys(d), v \in V} :
                      d \in {r \in shorter : Len(r) = n - 1}}

\* keys: plain, holding the separator, empty
KeySet == {ka, kb, kab, <<>>}
ScalarSet == {Num(1), None, Str(ka)}
\* nested values: mappings (one empty), sequences, a mapping inside a sequence
InnerSet ==
    {Map(<<>>),
     Map(<< <<ka, Num(1)>> >>),
     Map(<< <<kb, Map(<< <<ka, None>> >>)>> >>),
     List(<<>>),
     List(<<Num(1), Map(<< <<ka, Num(1)>> >>)>>)}
\* the documents flatten_json and search_nested_key are called on
DocSet ==
    {Map(d) : d \in DictsUpTo(KeySet, ScalarSet \cup InnerSet, MaxEntries)}
        \cup InnerSet \cup ScalarSet
\* the keys searched for: those, and the text of a sequence index
SearchKeySet == KeySet \cup {<<"0">>}
\* the flat mappings unflatten_json is called on
FlatKeySet == {ka, kb, kab, <<"a", ".", "a">>, <<".", "a">>, <<"a", ".", "0">>, <<>>}
FlatSet == {Map(d) : d \in DictsUpTo(FlatKeySet, ScalarSet, MaxEntries)}
\* the mappings merge_json and diff_json are called on
MergeSet ==
    {Map(d) : d \in DictsUpTo({ka, kb, kc},
                              {Num(1), Map(<< <<ka, Num(1)>> >>), Map(<< <<kb, None>> >>)},
                              MaxEntries)}
DiffSet ==
    {Map(d) : d \in DictsUpTo({ka, kb, kc},
                              {Num(1), None, Map(<< <<ka, Num(1)>> >>)},
                              MaxEntries)}

TreeCall(fn, a, b) == tcall = [fn |-> fn, a |-> a, b |-> b]

InitTree ==
    /\ strategy = "thread"
    /\ NoCall
    /\ tdone = FALSE /\ tret = None
    /\ \/ \E d \in DocSet : TreeCall("flatten", d, None)
       \/ \E f \in FlatSet : TreeCall("unflatten", f, None)
       \/ \E d \in DocSet, k \in SearchKeySet : TreeCall("search", d, Str(k))
       \/ \E x \in MergeSet, y \in MergeSet : TreeCall("merge", x, y)
       \/ \E x \in DiffSet, y \in DiffSet : TreeCall("diff", x, y)

Called(fn) == tcall.fn = fn /\ ~tdone
Return(v) == tret' = v /\ tdone' = TRUE /\ UNCHANGED <<tcall, iovars>>

Flatten == Called("flatten") /\ Return(flatten_json(tcall.a, <<>>, Sep))
Unflatten == Called("unflatten") /\ Return(unflatten_json(tcall.a, Sep))
Search == Called("search") /\ Return(List(search_nested_key(tcall.a, tcall.b.v)))
Merge == Called("merge") /\ Return(merge_json(tcall.a, tcall.b))

\* the sequences that list every element of S once
RECURSIVE Orders(_)
Orders(S) ==
    IF S = {} THEN {<<>>}
    ELSE UNION {{<<e>> \o q : q \in Orders(S \ {e})} : e \in S}
\* set(dict1) | set(dict2) is iterated in an order the language leaves open
Diff ==
    /\ Called("diff")
    /\ \E order \in Orders(DictKeys(tcall.a.v) \cup DictKeys(tcall.b.v)) :
          Return(diff_json(tcall.a, tcall.b, order))

NextTree == Flatten \/ Unflatten \/ Search \/ Merge \/ Diff

SpecTree == InitTree /\ [][NextTree]_vars

----------------------------------------------------------------------------
(* Properties of the tree transforms *)

TReturned(fn) == tdone /\ tcall.fn = fn

\* a segment that flatten_json makes of a sequence index: a string of digits
IsIndexSegment(seg) == seg # <<>> /\ \A i \in 1..Len(seg) : IsDigit(seg[i])
NoSequenceSegments(flat) ==
    \A k \in DictKeys(flat.v) :
        \A i \in 1..Len(Split(k, Sep)) : ~IsIndexSegment(Split(k, Sep)[i])
RECURSIVE NoSequences(_)
NoSequences(x) ==
    CASE x.t = "seq" -> FALSE
      [] x.t = "map" -> \A i \in 1..Len(x.v) : NoSequences(x.v[i][2])
      [] OTHER -> TRUE
IsPrefix(p, q) == Len(p) <= Len(q) /\ SubSeq(q, 1, Len(p)) = p
\* no compound key begins with the separator, and the segments of no key are
\* a prefix of the segments of another
WellFormedFlat(flat) ==
    /\ \A k \in DictKeys(flat.v) : ~IsSepAt(k, 1, Sep)
    /\ \A k1, k2 \in DictKeys(flat.v) :
          k1 # k2 => ~IsPrefix(Split(k1, Sep), Split(k2, Sep))
\* no key at any level holds the separator and no nested mapping is empty
RECURSIVE PlainNested(_)
PlainNested(x) ==
    x.t = "map" =>
        \A i \in 1..Len(x.v) :
            /\ Len(Split(x.v[i][1], Sep)) = 1
            /\ x.v[i][2] # Map(<<>>)
            /\ PlainNested(x.v[i][2])
\* and the empty key names no mapping at the top level
WellFormedNested(x) ==
    /\ PlainNested(x)
    /\ \A i \in 1..Len(x.v) : x.v[i][1] = <<>> => x.v[i][2].t # "map"

\* C6 as claimed: flatten(unflatten(F)) == F for every flat mapping F with no
\* sequence segments, and unflatten(flatten(D)) == D for every mapping D that
\* contains no sequences.
C6_InversesAsClaimed ==
    /\ (TReturned("unflatten") /\ NoSequenceSegments(tcall.a)) =>
          /\ tret.t = "map"
          /\ PyEq(flatten_json(tret, <<>>, Sep), tcall.a)
    /\ (TReturned("flatten") /\ tcall.a.t = "map" /\ NoSequences(tcall.a)) =>
          PyEq(unflatten_json(tret, Sep), tcall.a)

\* C6 amended: flatten(unflatten(F)) == F for every flat mapping F with no
\* sequence segments in which no key begins with the separator and no key's
\* segments are a prefix of another key's; unflatten(flatten(D)) == D for
\* every mapping D without sequences in which no key holds the separator, no
\* nested mapping is empty and the empty key names no mapping at the top level.
C6_Inverses ==
    /\ (TReturned("unflatten") /\ NoSequenceSegments(tcall.a)
            /\ WellFormedFlat(tcall.a)) =>
          /\ tret.t = "map"
          /\ PyEq(flatten_json(tret, <<>>, Sep), tcall.a)
    /\ (TReturned("flatten") /\ tcall.a.t = "map" /\ NoSequences(tcall.a)
            /\ WellFormedNested(tcall.a)) =>
          PyEq(unflatten_json(tret, Sep), tcall.a)
\* a mapping two levels deep, flattened to a compound key of three segments
C6_Witness ==
    /\ TReturned("flatten") /\ tcall.a.t = "map" /\ NoSequences(tcall.a)
    /\ WellFormedNested(tcall.a)
    /\ Len(tcall.a.v) = 2
    /\ \E k \in DictKeys(tret.v) : Len(Split(k, Sep)) = 3

DiffEntry(d1, d2, k) ==
    Map(<< <<OldKey, DictGetOrNone(d1, k)>>, <<NewKeyName, DictGetOrNone(d2, k)>> >>)

\* C7 as claimed: every key of keys(a) | keys(b) appears in diff_json(a, b),
\* with the entry {old: a.get(k), new: b.get(k)}.
C7_DiffAsClaimed ==
    TReturned("diff") =>
        /\ DictKeys(tret.v) = DictKeys(tcall.a.v) \cup DictKeys(tcall.b.v)
        /\ \A k \in DictKeys(tret.v) :
              PyEq(DictGet(tret.v, k), DiffEntry(tcall.a.v, tcall.b.v, k))

\* C7 amended: the keys of diff_json(a, b) are the keys k of keys(a) | keys(b)
\* with a.get(k) != b.get(k), each with the entry {old: a.get(k), new:
\* b.get(k)}; a key whose two sides are equal (among them a key that one side
\* lacks and the other maps to null) does not appear.
C7_Diff ==
    TReturned("diff") =>
        /\ DictKeys(tret.v) =
              {k \in DictKeys(tcall.a.v) \cup DictKeys(tcall.b.v) :
                  ~PyEq(DictGetOrNone(tcall.a.v, k), DictGetOrNone(tcall.b.v, k))}
        /\ \A k \in DictKeys(tret.v) :
              PyEq(DictGet(tret.v, k), DiffEntry(tcall.a.v, tcall.b.v, k))
\* a key equal on both sides, a key only in a that maps to null, and a key
\* only in b
C7_Witness ==
    /\ TReturned("diff")
    /\ DictHas(tcall.a.v, ka) /\ DictHas(tcall.b.v, ka)
    /\ DictGet(tcall.a.v, ka) = DictGet(tcall.b.v, ka)
    /\ DictHas(tcall.a.v, kb) /\ ~DictHas(tcall.b.v, kb)
    /\ DictGet(tcall.a.v, kb) = None
    /\ DictHas(tcall.b.v, kc) /\ ~DictHas(tcall.a.v, kc)
    /\ DictKeys(tret.v) = {kc}

\* the number of mapping nodes of x that have the entry k -> v
RECURSIVE Occurrences(_, _, _), SumOccurrences(_, _, _, _)
Occurrences(x, k, v) ==
    CASE x.t = "map" ->
            (IF DictHas(x.v, k) /\ DictGet(x.v, k) = v THEN 1 ELSE 0)
                + SumOccurrences(DictValues(x.v), k, v, Len(x.v))
      [] x.t = "seq" -> SumOccurrences(x.v, k, v, Len(x.v))
      [] OTHER -> 0
SumOccurrences(xs, k, v, n) ==
    IF n = 0 THEN 0
    ELSE Occurrences(xs[n], k, v) + SumOccurrences(xs, k, v, n - 1)
\* x and every value below it
RECURSIVE SubValues(_)
SubValues(x) ==
    {x} \cup
        CASE x.t = "map" -> UNION {SubValues(x.v[i][2]) : i \in 1..Len(x.v)}
          [] x.t = "seq" -> UNION {SubValues(x.v[i]) : i \in 1..Len(x.v)}
          [] OTHER -> {}

\* C8: search_nested_key(doc, k) returns, as a multiset, exactly the values v
\* of the entries k -> v of the mapping nodes of doc, those inside sequences
\* too: every value as often as there are such nodes, and nothing else.
C8_SearchFindsEveryMatch ==
    TReturned("search") =>
        /\ tret.t = "seq"
        /\ \A v \in SubValues(tcall.a) \cup {tret.v[i] : i \in 1..Len(tret.v)} :
              Count(tret.v, v) = Occurrences(tcall.a, tcall.b.v, v)
\* the same value found in two mapping nodes, one of them inside a sequence,
\* under a key that is also the text of a string in the document
C8_Witness ==
    /\ TReturned("search") /\ tcall.b.v = ka
    /\ Count(tret.v, Num(1)) = 2
    /\ \E i \in 1..Len(tcall.a.v) : tcall.a.v[i][2].t = "seq"

\* C9: merge_json(a, b) has the keys keys(a) | keys(b), b[k] for every key of
\* b and a[k] for every key of a only; a value of a under a key of b is
\* replaced whole.
C9_Merge ==
    TReturned("merge") =>
        /\ tret.t = "map"
        /\ DictKeys(tret.v) = DictKeys(tcall.a.v) \cup DictKeys(tcall.b.v)
        /\ Len(tret.v) = Cardinality(DictKeys(tret.v))
        /\ \A k \in DictKeys(tcall.b.v) : DictGet(tret.v, k) = DictGet(tcall.b.v, k)
        /\ \A k \in DictKeys(tcall.a.v) \ DictKeys(tcall.b.v) :
              DictGet(tret.v, k) = DictGet(tcall.a.v, k)
\* a and b hold different mappings under the same key, and each has a key of
\* its own
C9_Witness ==
    /\ TReturned("merge")
    /\ DictHas(tcall.a.v, ka) /\ DictHas(tcall.b.v, ka)
    /\ DictGet(tcall.a.v, ka).t = "map" /\ DictGet(tcall.b.v, ka).t = "map"
    /\ DictGet(tcall.a.v, ka) # DictGet(tcall.b.v, ka)
    /\ DictHas(tcall.a.v, kb) /\ ~DictHas(tcall.b.v, kb)
    /\ DictHas(tcall.b.v, kc) /\ ~DictHas(tcall.a.v, kc)
    /\ DictGet(tret.v, ka) = DictGet(tcall.b.v, ka)

----------------------------------------------------------------------------
(* Properties of the fan-out and the fan-in *)

PoolStrategy == strategy \in {"thread", "process"}
Failed(i) == IF op = "load" THEN items[i].res = None ELSE ~items[i].ok

\* C11: a batch call returns only after every one of its items has completed:
\* at the return no item is queued or running, the result covers every item
\* (a load maps every path, a save lists every item that succeeded), and in
\* the pool strategies the pool, up while the call ran, has been released,
\* also when items failed.
C11_FanInBeforeReturn ==
    /\ pc = "returned" =>
          /\ \A i \in 1..N : items[i].pc = "done"
          /\ \A i \in 1..N : Count(completed, i) = 1
          /\ op = "load" => \A i \in 1..N : DictHas(ret, items[i].path)
          /\ op = "save" => Len(ret) = Cardinality({i \in 1..N : items[i].ok})
          /\ PoolStrategy => pool = "down"
    /\ (pc \in {"running", "collecting"} /\ PoolStrategy) => pool = "up"
\* a pool call of two items, one of which failed, has returned
C11_Witness ==
    /\ pc = "returned" /\ PoolStrategy /\ N = 2
    /\ Failed(1) /\ ~Failed(2)
    /\ completed = <<2, 1>>
    /\ pool = "down"

Executing == {i \in 1..N : items[i].pc \notin {"queued", "done"}}
\* at most W items are being executed, and no item has completed twice
WidthBound ==
    /\ PoolStrategy => Cardinality(Executing) <= workers
    /\ \A i \in 1..N : Count(completed, i) <= 1
    /\ pc = "returned" => \A i \in 1..N : Count(completed, i) = 1
\* an item leaves the queue only while fewer than W items are being executed
\* and no item submitted before it is still queued; it completes only from
\* execution, once; and it is queued again only by a new call
WidthStep ==
    \A i \in 1..N :
        /\ (items[i].pc = "queued" /\ i \in DOMAIN items' /\ items'[i].pc # "queued") =>
              /\ PoolStrategy => Cardinality(Executing) < workers
              /\ \A j \in 1..(i - 1) : items[j].pc # "queued"
              /\ op' = op /\ Len(items') = N
        /\ (items[i].pc = "done" /\ pc # "returned") =>
              (i \in DOMAIN items' /\ items'[i].pc = "done" /\ Count(completed', i) = 1)
        /\ (items[i].pc # "done" /\ i \in DOMAIN items' /\ items'[i].pc = "done") =>
              (items[i].pc # "queued" \/ (strategy = "async" /\ op = "save"))

\* C12: during a thread-pool or process-pool batch call of width W at most W
\* items are being executed at any moment; every other item waits in the
\* queue and starts only when a worker is free; each item is executed
\* exactly once.
C12_PoolWidth == []WidthBound /\ [][WidthStep]_vars
\* a pool of one worker executes the first of two items while the second
\* waits in the queue
C12_Witness ==
    /\ PoolStrategy /\ workers = 1 /\ N = 2
    /\ items[1].pc = "write" /\ items[2].pc = "queued"

InCall == pc \in {"running", "collecting"}
\* C13: every batch load or save call eventually returns, in each strategy,
\* for every pool width, also with more items than workers and with items
\* that fail, provided every step that can be taken is eventually taken: no
\* item stays in the queue for ever and the caller does not wait for ever.
C13_EveryCallReturns ==
    /\ InCall ~> (pc = "returned")
    /\ \A i \in 1..MaxItems :
          (InCall /\ i \in 1..N /\ items[i].pc = "queued") ~>
              (i \in 1..N /\ items[i].pc = "done")
\* a call with more items than workers, every one of which failed, returned
C13_Witness ==
    /\ pc = "returned" /\ PoolStrategy /\ N > workers
    /\ \A i \in 1..N : Failed(i)

\* the items of the call that write path p
Writers(p) == {i \in 1..N : items[i].path = p}
\* C14: when a batch save holds two pairs with the same writable path and
\* different Documents, then after the return the file at that path decodes
\* to exactly one of the Documents written to it, whatever the interleaving
\* of the open, write and close steps of the items.
C14_SamePathNotCorrupted ==
    Returned("save") =>
        \A p \in Writable :
            (/\ \E i, j \in Writers(p) : ~PyEq(items[i].data, items[j].data)
             /\ \A i \in Writers(p) : IsDocument(items[i].data)) =>
                /\ fs[p].e
                /\ Decode(fs[p].c).ok
                /\ \E i \in Writers(p) : PyEq(Decode(fs[p].c).val, items[i].data)

====
